---- MODULE Spec2Model ----
(***************************************************************************)
(* Model of the Minati Vault onboarding bot: the validators                *)
(* (validators.py), the user store (database.py) and the update handlers   *)
(* (main.py).  A handler is a process: it reads the user's record, decides *)
(* from the event and the step it read, and then performs its store        *)
(* writes one at a time.  Every store write is one atomic single-document  *)
(* operation; it may raise, and a write that raises is not applied.        *)
(* /status and /help write nothing and are left out.                       *)
(*                                                                         *)
(* Texts are sequences of one-character strings, so that the validators    *)
(* are computed character by character as the code computes them.          *)
(***************************************************************************)
EXTENDS Integers, Sequences, FiniteSets, TLC

VARIABLES users, pc, loc, now

vars == <<users, pc, loc, now>>

(***************************************************************************)
(* Bounds of the model.                                                    *)
(***************************************************************************)
\* the clock datetime.now() reads takes the values 0..MaxTime
MaxTime == 1

\* screenshots kept per record
MaxScreenshots == 2

\* length of the short usernames that are all tried
MaxCore == 3

\* user identities (Telegram user ids)
Ids == {1, 2}

\* handlers that may be in flight (one per worker)
Workers == {1, 2}

\* Python's None as the value of a document field that holds a text
None == <<"None">>

(***************************************************************************)
(* Characters and strings                                                  *)
(***************************************************************************)
UpperCase == <<"A","B","C","D","E","F","G","H","I","J","K","L","M",
               "N","O","P","Q","R","S","T","U","V","W","X","Y","Z">>

LowerCase == <<"a","b","c","d","e","f","g","h","i","j","k","l","m",
               "n","o","p","q","r","s","t","u","v","w","x","y","z">>

Digits == {"0","1","2","3","4","5","6","7","8","9"}

Range(s) == {s[i] : i \in DOMAIN s}

\* the characters str.strip() removes
Whitespace == {" ", "\t", "\n", "\r", "\f"}

\* s[i..] of Python, 1-based: the suffix that starts at position i
From(s, i) == SubSeq(s, i, Len(s))

\* str.lstrip(chars)
LStrip(s, chars) ==
    IF \A i \in DOMAIN s : s[i] \in chars
    THEN <<>>
    ELSE From(s, CHOOSE i \in DOMAIN s :
                     s[i] \notin chars /\ \A j \in 1..(i - 1) : s[j] \in chars)

\* str.rstrip(chars)
RStrip(s, chars) ==
    IF \A i \in DOMAIN s : s[i] \in chars
    THEN <<>>
    ELSE SubSeq(s, 1, CHOOSE i \in DOMAIN s :
                     s[i] \notin chars /\ \A j \in (i + 1)..Len(s) : s[j] \in chars)

\* str.strip()
Strip(s) == RStrip(LStrip(s, Whitespace), Whitespace)

\* str.lower(), one character
LowerChar(c) ==
    IF \E i \in DOMAIN UpperCase : UpperCase[i] = c
    THEN LowerCase[CHOOSE i \in DOMAIN UpperCase : UpperCase[i] = c]
    ELSE c

\* str.lower()
Lower(s) == [i \in DOMAIN s |-> LowerChar(s[i])]

\* sub in s
Contains(s, sub) ==
    \E i \in 1..(Len(s) - Len(sub) + 1) : SubSeq(s, i, i + Len(sub) - 1) = sub

StartsWith(s, pre) == Len(s) >= Len(pre) /\ SubSeq(s, 1, Len(pre)) = pre

EndsWith(s, suf) ==
    Len(s) >= Len(suf) /\ SubSeq(s, Len(s) - Len(suf) + 1, Len(s)) = suf

\* "$" of a Python regular expression matches at the end of the string and
\* just before a newline that ends the string: the strings a pattern
\* "^...$" has to match in full
DollarForms(s) ==
    {s} \cup (IF Len(s) > 0 /\ s[Len(s)] = "\n"
              THEN {SubSeq(s, 1, Len(s) - 1)} ELSE {})

\* n copies of the character c
Rep(c, n) == [i \in 1..n |-> c]

(***************************************************************************)
(* validators.py                                                           *)
(***************************************************************************)
HexChars == Digits \cup {"a","b","c","d","e","f","A","B","C","D","E","F"}

UsernameChars == Range(UpperCase) \cup Range(LowerCase) \cup Digits \cup {".", "_"}

\* number of hexadecimal characters the pattern asks for
HexLen == 40

\* a pattern that takes lower-case hexadecimal characters only
bep20_pattern_lower(address) ==
    \E a \in DollarForms(address) :
        /\ Len(a) = 2 + HexLen
        /\ a[1] = "0" /\ a[2] = "x"
        /\ \A i \in 3..Len(a) : a[i] \in Digits \cup {"a","b","c","d","e","f"}

\* re.match(r'^0x[a-fA-F0-9]{40}$', address)
bep20_pattern(address) ==
    \E a \in DollarForms(address) :
        /\ Len(a) = 2 + HexLen
        /\ a[1] = "0" /\ a[2] = "x"
        /\ \A i \in 3..Len(a) : a[i] \in HexChars

ZeroAddress == <<"0", "x">> \o Rep("0", HexLen)

DeadAddress == <<"0", "x">> \o Rep("0", HexLen - 4) \o <<"d", "e", "a", "d">>

invalid_addresses == {ZeroAddress, DeadAddress}

Result(ok, msg) == [ok |-> ok, msg |-> msg]

validate_bep20_address(address) ==
    IF address = <<>>
    THEN Result(FALSE, "Address cannot be empty")
    ELSE LET a == Strip(address) IN
         IF ~bep20_pattern(a)
         THEN Result(FALSE, "Invalid BEP20 address format")
         ELSE IF Lower(a) \in invalid_addresses
         THEN Result(FALSE, "Cannot use zero or dead addresses")
         ELSE Result(TRUE, "Valid BEP20 address")

\* shortest and longest username accepted
MinUsernameLen == 3

MaxUsernameLen == 30

\* re.match(r'^[a-zA-Z0-9._]+$', username)
username_pattern(username) ==
    \E u \in DollarForms(username) :
        Len(u) >= 1 /\ \A i \in DOMAIN u : u[i] \in UsernameChars

validate_username(username) ==
    IF username = <<>>
    THEN Result(FALSE, "Username cannot be empty")
    ELSE LET u == Strip(LStrip(username, {"@"})) IN
         IF Len(u) < MinUsernameLen
         THEN Result(FALSE, "Username must be at least 3 characters long")
         ELSE IF Len(u) > MaxUsernameLen
         THEN Result(FALSE, "Username cannot be longer than 30 characters")
         ELSE IF ~username_pattern(u)
         THEN Result(FALSE, "Username can only contain letters, numbers, underscores, and dots")
         ELSE IF StartsWith(u, <<"_">>) \/ StartsWith(u, <<".">>)
         THEN Result(FALSE, "Username cannot start with underscore or dot")
         ELSE IF EndsWith(u, <<"_">>) \/ EndsWith(u, <<".">>)
         THEN Result(FALSE, "Username cannot end with underscore or dot")
         ELSE IF \/ Contains(u, <<"_", "_">>) \/ Contains(u, <<".", ".">>)
                 \/ Contains(u, <<".", "_">>) \/ Contains(u, <<"_", ".">>)
         THEN Result(FALSE, "Username cannot contain consecutive special characters")
         ELSE Result(TRUE, "Valid username")

\* a size limit that a file of exactly 5 MiB exceeds
max_size_below == 5 * 1024 * 1024 - 1

\* largest file size accepted, in bytes
max_size == 5 * 1024 * 1024

valid_extensions == { <<".", "j", "p", "g">>, <<".", "j", "p", "e", "g">>,
                      <<".", "p", "n", "g">>, <<".", "g", "i", "f">>,
                      <<".", "b", "m", "p">>, <<".", "w", "e", "b", "p">> }

validate_screenshot(file_size, file_name) ==
    IF file_size > max_size
    THEN Result(FALSE, "File size too large. Maximum 5MB allowed")
    ELSE IF ~ \E ext \in valid_extensions : EndsWith(Lower(file_name), ext)
    THEN Result(FALSE, "Invalid file type. Please send image files only")
    ELSE Result(TRUE, "Valid screenshot")

(***************************************************************************)
(* config.py                                                               *)
(***************************************************************************)
\* the keys of config.SOCIAL_LINKS; a lookup of any other key raises KeyError
SOCIAL_LINKS == {"twitter", "instagram", "telegram", "app_download"}

(***************************************************************************)
(* database.py: the users collection is a function from the _id of every   *)
(* stored document to the document.                                        *)
(***************************************************************************)
Steps == 1..6

step_key(step) ==
    <<"step_1", "step_2", "step_3", "step_4", "step_5", "step_6">>[step]

\* dict[key] = value
Put(dict, key, value) ==
    [k \in DOMAIN dict \cup {key} |-> IF k = key THEN value ELSE dict[k]]

\* dict.get(key): None and a missing key both count as false
Get(dict, key) == key \in DOMAIN dict /\ dict[key]

\* the document Database.create_user inserts
user_data(username, first_name, t) ==
    [ username         |-> username,
      first_name       |-> first_name,
      current_step     |-> 1,
      steps_completed  |-> <<>>,
      bep20_address    |-> None,
      social_usernames |-> [twitter |-> None, instagram |-> None],
      screenshots      |-> <<>>,
      created_at       |-> t,
      updated_at       |-> t ]

\* an update_user_step that replaces the document instead of setting fields
update_data_replace(d, step, completed, t) ==
    [d EXCEPT !.current_step = IF completed THEN step + 1 ELSE step,
              !.steps_completed = Put(<<>>, step_key(step), completed),
              !.social_usernames = [twitter |-> None, instagram |-> None],
              !.bep20_address = None,
              !.updated_at = t]

\* an update_user_step that counts current_step up ($inc)
update_data_inc(d, step, completed, t) ==
    [d EXCEPT !.current_step = IF completed THEN @ + 1 ELSE @,
              !.steps_completed = Put(@, step_key(step), completed),
              !.updated_at = t]

\* a text handler that goes on to the advance whether or not the save
\* succeeded
save_unchecked(saved) == TRUE

\* `if db.save_social_username(...)`, `if db.save_bep20_address(...)`
save_checked(saved) == saved

\* an update_user_step that moves two steps on
update_data_skip(d, step, completed, t) ==
    [d EXCEPT !.current_step = IF completed THEN step + 2 ELSE step,
              !.steps_completed = Put(@, step_key(step), completed),
              !.updated_at = t]

\* an update_user_step that marks the step and leaves current_step
update_data_stay(d, step, completed, t) ==
    [d EXCEPT !.current_step = step,
              !.steps_completed = Put(@, step_key(step), completed),
              !.updated_at = t]

\* the $set of Database.update_user_step applied to document d
update_data(d, step, completed, t) ==
    [d EXCEPT !.current_step = IF completed THEN step + 1 ELSE step,
              !.steps_completed = Put(@, step_key(step), completed),
              !.updated_at = t]

\* the $set of Database.save_social_username applied to document d
set_social_username(d, platform, username, t) ==
    [d EXCEPT !.social_usernames[platform] = username, !.updated_at = t]

\* the $set of Database.save_bep20_address applied to document d
set_bep20_address(d, address, t) ==
    [d EXCEPT !.bep20_address = address, !.updated_at = t]

\* a reset that puts a fresh document in place of the old one
reset_data_fresh(d, t) == user_data("No username", "User", t)

\* a reset that keeps the completed steps
reset_data_keep_steps(d, t) ==
    [d EXCEPT !.current_step = 1,
              !.social_usernames = [twitter |-> None, instagram |-> None],
              !.bep20_address = None,
              !.updated_at = t]

\* a reset that keeps the address
reset_data_keep_address(d, t) ==
    [d EXCEPT !.current_step = 1,
              !.steps_completed = <<>>,
              !.social_usernames = [twitter |-> None, instagram |-> None],
              !.updated_at = t]

\* the $set of restart_process and of reset_command applied to document d
reset_data(d, t) ==
    [d EXCEPT !.current_step = 1,
              !.steps_completed = <<>>,
              !.social_usernames = [twitter |-> None, instagram |-> None],
              !.bep20_address = None,
              !.updated_at = t]

\* the $push and $set of Database.add_screenshot applied to document d
push_screenshot(d, file_id, file_name, t) ==
    [d EXCEPT !.screenshots = Append(@, [file_id |-> file_id,
                                         file_name |-> file_name,
                                         uploaded_at |-> t]),
              !.updated_at = t]

\* an update_one that inserts the document when none matches (upsert=True)
update_one_upsert(user_id, new) ==
    [i \in DOMAIN users \cup {user_id} |-> IF i = user_id THEN new ELSE users[i]]

\* collection.update_one({"_id": user_id}, ...): the collection afterwards,
\* new being the matched document with the update applied
update_one(user_id, new) ==
    IF user_id \in DOMAIN users THEN [users EXCEPT ![user_id] = new] ELSE users

\* UpdateResult.modified_count: 1 when a document matched and the update
\* changed it, 0 when none matched or the update left it as it was
modified_count(user_id, new) ==
    IF user_id \in DOMAIN users /\ users[user_id] # new THEN 1 ELSE 0

\* a completion count with $gt in place of $gte
completed_users_gt(us) == {u \in DOMAIN us : us[u].current_step > 7}

\* the documents count_documents({"current_step": {"$gte": 7}}) counts
completed_users_of(us) == {u \in DOMAIN us : us[u].current_step >= 7}

\* Database.get_user_stats on collection us; raised: a count_documents has
\* raised.  completion_rate is the quotient num / den.
get_user_stats(us, raised) ==
    LET total_users == Cardinality(DOMAIN us)
        completed_users == Cardinality(completed_users_of(us))
    IN  IF raised
        THEN [total_users |-> 0, completed_users |-> 0,
              completion_rate |-> [num |-> 0, den |-> 1]]
        ELSE [total_users |-> total_users, completed_users |-> completed_users,
              completion_rate |-> IF total_users > 0
                                  THEN [num |-> completed_users * 100,
                                        den |-> total_users]
                                  ELSE [num |-> 0, den |-> 1]]

\* collection.insert_one(doc) with doc["_id"] = user_id (no duplicate key)
insert_one(user_id, doc) ==
    [i \in DOMAIN users \cup {user_id} |-> IF i = user_id THEN doc ELSE users[i]]

(***************************************************************************)
(* main.py: events and the state of a handler                              *)
(***************************************************************************)
\* callback_data of the inline buttons
Buttons == {"verify_step_1", "verify_telegram", "complete_process",
            "twitter_info", "instagram_info", "bep20_info",
            "restart_process", "show_status", "help"}

\* user.username and user.first_name as the transport delivers them
\* ("" stands for a missing one)
Profiles == {[username |-> "", first_name |-> ""],
             [username |-> "alice", first_name |-> "Al"]}

ValidAddress == <<"0", "x">> \o Rep("A", HexLen - 1) \o <<"b">>

OtherAddress == <<"0", "x">> \o Rep("1", HexLen)

\* the message texts the model sends
Texts == { <<"a", "b", "c">>,
           <<"@", " ", "@", "a", "b", "c">>,
           <<".", "b", "a", "d", "_">>,
           <<" ", "a", "b", " ">>,
           ValidAddress,
           OtherAddress,
           ZeroAddress,
           <<"0", "x">> \o Rep("0", HexLen - 4) \o <<"D", "E", "A", "D">>,
           <<"0", "x", "1", "2">> }

\* what get_chat_member answers: a member status, or an error it raises
ChatMemberStatuses == {"member", "administrator", "creator",
                       "restricted", "left", "kicked"}

MembershipOutcomes ==
    ChatMemberStatuses \cup {"BadRequest", "Forbidden", "Exception"}

\* a handler that is not running
Idle == [handler |-> "none", id |-> 0, data |-> "", current_step |-> 0,
         message_text |-> <<>>, value |-> <<>>,
         username |-> "", first_name |-> "",
         status |-> "", out |-> "", msg |-> "",
         args |-> <<>>, matched |-> <<>>, result |-> <<>>]

\* a membership check that lets the user pass when the check cannot be made
check_channel_membership_open(outcome) ==
    outcome \notin {"restricted", "left", "kicked"}

\* check_channel_membership, given what get_chat_member answered
check_channel_membership(outcome) ==
    IF outcome \in ChatMemberStatuses
    THEN outcome \in {"member", "administrator", "creator"}
    ELSE FALSE

\* verify_social_follow
verify_social_follow(platform, username) == validate_username(username).ok

\* a text handler that files every username under twitter
platform_of_twitter(current_step) == "twitter"

\* the platform whose username the text handler collects at a step
platform_of(current_step) == IF current_step = 2 THEN "twitter" ELSE "instagram"

\* what a handler does next: the store call it goes on to, or the reply it ends with
Goto(next, out, msg) == [pc |-> next, out |-> out, msg |-> msg]

\* a handler that skips the comparison of the step it read
at_step_unchecked(d, step) == TRUE

\* current_step == step, for the document d the handler read
at_step(d, step) == d.current_step = step

\* button_handler, from the callback data and the step it read, for an
\* existing user; d is the document it read
button_dispatch(data, d) ==
    CASE data = "verify_step_1" ->
           IF at_step(d, 1)
           THEN Goto("update_user_step", "", "")
           ELSE Goto("reply", "not_on_step", "You're not on step 1.")
      [] data = "verify_telegram" ->
           IF at_step(d, 4)
           THEN Goto("check_channel_membership", "", "")
           ELSE Goto("reply", "not_on_step", "You're not on the Telegram step.")
      [] data = "complete_process" ->
           IF at_step(d, 6)
           THEN Goto("update_user_step", "", "")
           ELSE Goto("reply", "not_on_step", "You're not on the final step.")
      [] data \in {"twitter_info", "instagram_info", "bep20_info"} ->
           Goto("reply", "info", "")
      [] data = "restart_process" -> Goto("restart_process", "", "")
      [] data = "show_status" ->
           \* bep20_address[:10] of None raises; so does SOCIAL_LINKS['website']
           IF d.bep20_address = None \/ "website" \notin SOCIAL_LINKS
           THEN Goto("reply", "exception", "")
           ELSE Goto("reply", "status", "")
      [] data = "help" ->
           IF "website" \notin SOCIAL_LINKS
           THEN Goto("reply", "exception", "")
           ELSE Goto("reply", "help", "")

\* the username handle_message validates and saves at steps 2 and 3
username_of(message_text) == Strip(LStrip(message_text, {"@"}))

\* a text handler that takes an address at every step from 5 on
address_step_onwards(current_step) == current_step >= 5

\* the step at which handle_message takes the text for an address
address_step(current_step) == current_step = 5

\* handle_message, from the stripped text and the step it read
message_dispatch(message_text, current_step) ==
    IF current_step \in {2, 3}
    THEN LET username == username_of(message_text)
             v == validate_username(username)
         IN  IF v.ok
             THEN IF verify_social_follow(platform_of(current_step), username)
                  THEN Goto("save_social_username", "", "")
                  ELSE Goto("reply", "not_verified", "")
             ELSE Goto("reply", "invalid", v.msg)
    ELSE IF address_step(current_step)
    THEN LET v == validate_bep20_address(message_text)
         IN  IF v.ok
             THEN Goto("save_bep20_address", "", "")
             ELSE Goto("reply", "invalid", v.msg)
    ELSE Goto("reply", "currently_on_step", "")

\* the value handle_message passes to the store at the step it read
message_value(message_text, current_step) ==
    IF current_step \in {2, 3} THEN username_of(message_text) ELSE message_text

(***************************************************************************)
(* The handlers as processes.  pc[w] is "idle", the store or network call  *)
(* handler w performs next, or "reply" when all that is left is to send    *)
(* its answer.  With serial, the transport delivers an event of a user     *)
(* only when no other event of that user is being handled.                 *)
(***************************************************************************)
InFlight(u) == {v \in Workers : pc[v] # "idle" /\ loc[v].id = u}

CanBegin(w, u, serial) == pc[w] = "idle" /\ (serial => InFlight(u) = {})

\* handler w goes on to next with local state l
Continue(w, next, l) ==
    /\ pc' = [pc EXCEPT ![w] = next]
    /\ loc' = [loc EXCEPT ![w] = l]

\* handler w has only its answer left to send
Answer(w, out, msg) ==
    Continue(w, "reply", [loc[w] EXCEPT !.out = out, !.msg = msg])

\* /start: start, up to its first store write
start(w, u, profile, serial) ==
    /\ CanBegin(w, u, serial)
    /\ LET username == IF profile.username = "" THEN "No username"
                       ELSE profile.username
           first_name == IF profile.first_name = "" THEN "User"
                         ELSE profile.first_name
           l == [Idle EXCEPT !.handler = "start", !.id = u,
                             !.username = username, !.first_name = first_name]
       IN  IF u \notin DOMAIN users
           THEN Continue(w, "create_user", l)
           ELSE LET current_step == users[u].current_step IN
                Continue(w, "reply",
                    [l EXCEPT !.current_step = current_step,
                              !.out = IF current_step > 6 THEN "already_completed"
                                      ELSE "welcome_back"])
    /\ UNCHANGED <<users, now>>

\* Database.create_user, called by start
create_user(w) ==
    /\ pc[w] = "create_user"
    /\ \E raised \in BOOLEAN :
        LET u == loc[w].id
            \* insert_one raises DuplicateKeyError for an _id that is stored
            inserted == ~raised /\ u \notin DOMAIN users
        IN  /\ users' = IF inserted
                        THEN insert_one(u, user_data(loc[w].username,
                                                     loc[w].first_name, now))
                        ELSE users
            /\ Answer(w, IF inserted THEN "welcome" ELSE "error_creating", "")
    /\ UNCHANGED now

\* a button press: button_handler, up to its first store write or network call
button_handler(w, u, data, serial) ==
    /\ CanBegin(w, u, serial)
    /\ LET l == [Idle EXCEPT !.handler = "button_handler", !.id = u, !.data = data]
       IN  IF u \notin DOMAIN users
           THEN Continue(w, "reply", [l EXCEPT !.out = "user_not_found"])
           ELSE LET g == button_dispatch(data, users[u]) IN
                Continue(w, g.pc,
                    [l EXCEPT !.current_step = users[u].current_step,
                              !.out = g.out, !.msg = g.msg])
    /\ UNCHANGED <<users, now>>

\* a text message: handle_message, up to its first store write
handle_message(w, u, text, serial) ==
    /\ CanBegin(w, u, serial)
    /\ LET message_text == Strip(text)
           l == [Idle EXCEPT !.handler = "handle_message", !.id = u]
       IN  IF u \notin DOMAIN users
           THEN Continue(w, "reply", [l EXCEPT !.out = "use_start_first"])
           ELSE LET current_step == users[u].current_step
                    g == message_dispatch(message_text, current_step)
                IN  Continue(w, g.pc,
                        [l EXCEPT !.current_step = current_step,
                                  !.message_text = message_text,
                                  !.value = IF g.pc = "reply" THEN <<>>
                                            ELSE message_value(message_text, current_step),
                                  !.out = g.out, !.msg = g.msg])
    /\ UNCHANGED <<users, now>>

\* await check_channel_membership(...) in button_handler (verify_telegram)
membership_check(w) ==
    /\ pc[w] = "check_channel_membership"
    /\ \E outcome \in MembershipOutcomes :
        LET l == [loc[w] EXCEPT !.status = outcome] IN
        IF check_channel_membership(outcome)
        THEN Continue(w, "update_user_step", l)
        ELSE Continue(w, "reply", [l EXCEPT !.out = "verification_failed"])
    /\ UNCHANGED <<users, now>>

\* Database.save_social_username, called by handle_message at steps 2 and 3
save_social_username(w) ==
    /\ pc[w] = "save_social_username"
    /\ \E raised \in BOOLEAN :
        LET u == loc[w].id
            new == IF u \in DOMAIN users
                   THEN set_social_username(users[u], platform_of(loc[w].current_step),
                                            loc[w].value, now)
                   ELSE Idle
            saved == ~raised /\ modified_count(u, new) > 0
        IN  /\ users' = IF raised THEN users ELSE update_one(u, new)
            /\ IF save_checked(saved)
               THEN Continue(w, "update_user_step", loc[w])
               ELSE Answer(w, "error_saving", "")
    /\ UNCHANGED now

\* Database.save_bep20_address, called by handle_message at step 5
save_bep20_address(w) ==
    /\ pc[w] = "save_bep20_address"
    /\ \E raised \in BOOLEAN :
        LET u == loc[w].id
            new == IF u \in DOMAIN users
                   THEN set_bep20_address(users[u], loc[w].value, now)
                   ELSE Idle
            saved == ~raised /\ modified_count(u, new) > 0
        IN  /\ users' = IF raised THEN users ELSE update_one(u, new)
            /\ IF save_checked(saved)
               THEN Continue(w, "update_user_step", loc[w])
               ELSE Answer(w, "error_saving", "")
    /\ UNCHANGED now

\* Database.update_user_step(user_id, step, True), called with the step the
\* handler read; the callers drop what it returns
update_user_step(w) ==
    /\ pc[w] = "update_user_step"
    /\ \E raised \in BOOLEAN :
        LET u == loc[w].id
            new == IF u \in DOMAIN users
                   THEN update_data(users[u], loc[w].current_step, TRUE, now)
                   ELSE Idle
        IN  /\ users' = IF raised THEN users ELSE update_one(u, new)
            /\ IF loc[w].data = "complete_process"
               THEN Continue(w, "final_info", loc[w])
               ELSE Answer(w, "success", "")
    /\ UNCHANGED now

\* complete_process after its update: reads the user again and builds the
\* completion message
final_info(w) ==
    /\ pc[w] = "final_info"
    /\ LET d == users[loc[w].id] IN
       \* bep20_address[:10] of None raises; so does SOCIAL_LINKS['website']
       IF d.bep20_address = None \/ "website" \notin SOCIAL_LINKS
       THEN Answer(w, "exception", "")
       ELSE Answer(w, "success", "")
    /\ UNCHANGED <<users, now>>

\* restart_process of button_handler: its update_one
restart_process(w) ==
    /\ pc[w] = "restart_process"
    /\ \E raised \in BOOLEAN :
        LET u == loc[w].id
            new == IF u \in DOMAIN users THEN reset_data(users[u], now) ELSE Idle
        IN  /\ users' = IF raised THEN users ELSE update_one(u, new)
            /\ Answer(w, IF raised THEN "error_restarting" ELSE "restarted", "")
    /\ UNCHANGED now

\* /reset: reset_command (it reads nothing before its update_one)
reset_command(w, u, serial) ==
    /\ CanBegin(w, u, serial)
    /\ \E raised \in BOOLEAN :
        LET new == IF u \in DOMAIN users THEN reset_data(users[u], now) ELSE Idle
            l == [Idle EXCEPT !.handler = "reset_command", !.id = u]
        IN  /\ users' = IF raised THEN users ELSE update_one(u, new)
            /\ Continue(w, "reply",
                 [l EXCEPT !.out = IF raised THEN "error_resetting"
                                   ELSE IF modified_count(u, new) > 0 THEN "reset_done"
                                   ELSE "no_data_to_reset"])
    /\ UNCHANGED now

\* the handler sends its answer and returns
reply(w) ==
    /\ pc[w] = "reply"
    /\ Continue(w, "idle", Idle)
    /\ UNCHANGED <<users, now>>

\* a method of Database called for user_id with args returns to its caller:
\* the method catches what its update_one raises and returns False, and else
\* returns modified_count > 0, new being the document with the update
\* applied; matched keeps the document the filter found, if any
Returns(w, method, user_id, args, new) ==
    /\ \E raised \in BOOLEAN :
         LET result == ~raised /\ modified_count(user_id, new) > 0 IN
         /\ users' = IF raised THEN users ELSE update_one(user_id, new)
         /\ Continue(w, "reply",
                [Idle EXCEPT !.handler = method, !.id = user_id, !.args = args,
                             !.matched = IF user_id \in DOMAIN users
                                         THEN <<users[user_id]>> ELSE <<>>,
                             !.out = IF result THEN "True" ELSE "False"])
    /\ UNCHANGED now

\* the document an update is applied to; update_one applies it to none when
\* no document has the id
Matched(user_id) ==
    IF user_id \in DOMAIN users THEN users[user_id] ELSE user_data("", "", now)

\* Database.update_user_step called on its own
Database_update_user_step(w, user_id, step, completed) ==
    /\ CanBegin(w, user_id, TRUE)
    /\ Returns(w, "Database.update_user_step", user_id, <<step, completed>>,
               update_data(Matched(user_id), step, completed, now))

\* Database.save_social_username called on its own
Database_save_social_username(w, user_id, platform, username) ==
    /\ CanBegin(w, user_id, TRUE)
    /\ Returns(w, "Database.save_social_username", user_id,
               <<platform, username>>,
               set_social_username(Matched(user_id), platform, username, now))

\* Database.save_bep20_address called on its own
Database_save_bep20_address(w, user_id, address) ==
    /\ CanBegin(w, user_id, TRUE)
    /\ Returns(w, "Database.save_bep20_address", user_id, <<address>>,
               set_bep20_address(Matched(user_id), address, now))

\* Database.add_screenshot called on its own
Database_add_screenshot(w, user_id, file_id, file_name) ==
    /\ CanBegin(w, user_id, TRUE)
    /\ user_id \in DOMAIN users => Len(users[user_id].screenshots) < MaxScreenshots
    /\ Returns(w, "Database.add_screenshot", user_id, <<file_id, file_name>>,
               push_screenshot(Matched(user_id), file_id, file_name, now))

\* Database.get_user_stats called on its own: it returns the counts, or
\* zeros when a count_documents raises
Database_get_user_stats(w) ==
    /\ pc[w] = "idle"
    /\ \E raised \in BOOLEAN :
         Continue(w, "reply",
             [Idle EXCEPT !.handler = "Database.get_user_stats",
                          !.result = <<get_user_stats(users, raised)>>])
    /\ UNCHANGED <<users, now>>

\* Validators.validate_bep20_address called on its own
Validators_validate_bep20_address(w, address) ==
    /\ pc[w] = "idle"
    /\ Continue(w, "reply",
           [Idle EXCEPT !.handler = "Validators.validate_bep20_address",
                        !.args = <<address>>,
                        !.result = <<validate_bep20_address(address)>>])
    /\ UNCHANGED <<users, now>>

\* Validators.validate_username called on its own
Validators_validate_username(w, username) ==
    /\ pc[w] = "idle"
    /\ Continue(w, "reply",
           [Idle EXCEPT !.handler = "Validators.validate_username",
                        !.args = <<username>>,
                        !.result = <<validate_username(username)>>])
    /\ UNCHANGED <<users, now>>

\* Validators.validate_screenshot called on its own
Validators_validate_screenshot(w, file_size, file_name) ==
    /\ pc[w] = "idle"
    /\ Continue(w, "reply",
           [Idle EXCEPT !.handler = "Validators.validate_screenshot",
                        !.args = <<file_size, file_name>>,
                        !.result = <<validate_screenshot(file_size, file_name)>>])
    /\ UNCHANGED <<users, now>>

\* time passes: datetime.now() advances
Tick ==
    /\ now < MaxTime
    /\ now' = now + 1
    /\ UNCHANGED <<users, pc, loc>>

Init ==
    /\ users = <<>>
    /\ pc = [w \in Workers |-> "idle"]
    /\ loc = [w \in Workers |-> Idle]
    /\ now = 0

\* a step of handler w that is not the arrival of an event
Step(w) ==
    \/ create_user(w)
    \/ membership_check(w)
    \/ save_social_username(w)
    \/ save_bep20_address(w)
    \/ update_user_step(w)
    \/ final_info(w)
    \/ restart_process(w)
    \/ reply(w)

\* an event arrives and worker w takes it; e bounds the events delivered
Begin(w, e) ==
    \E u \in e.ids :
        \/ \E profile \in e.profiles : start(w, u, profile, e.serial)
        \/ \E data \in e.buttons : button_handler(w, u, data, e.serial)
        \/ \E text \in e.texts : handle_message(w, u, text, e.serial)
        \/ reset_command(w, u, e.serial)

\* a method of Database is called on its own; c bounds the arguments
Call(w, c) ==
    \E user_id \in c.ids :
        \/ \E step \in c.steps : \E completed \in BOOLEAN :
              Database_update_user_step(w, user_id, step, completed)
        \/ \E platform \in c.platforms : \E username \in c.usernames :
              Database_save_social_username(w, user_id, platform, username)
        \/ \E address \in c.addresses :
              Database_save_bep20_address(w, user_id, address)
        \/ \E file \in c.files :
              Database_add_screenshot(w, user_id, file.file_id, file.file_name)

\* the events of a user are handled one at a time
Serial == [serial |-> TRUE, ids |-> {1}, profiles |-> Profiles,
           buttons |-> Buttons, texts |-> Texts]

Next == Tick \/ \E w \in Workers : Begin(w, Serial) \/ Step(w)

Spec == Init /\ [][Next]_vars

\* several workers: events of one user may be handled at the same time
Concurrent == [serial |-> FALSE, ids |-> {1},
               profiles |-> {[username |-> "alice", first_name |-> "Al"]},
               buttons |-> {"verify_step_1", "verify_telegram",
                            "complete_process", "restart_process"},
               texts |-> {<<"a", "b", "c">>, ValidAddress}]

NextConc == Tick \/ \E w \in Workers : Begin(w, Concurrent) \/ Step(w)

SpecConc == Init /\ [][NextConc]_vars

\* two users, the events of each handled one at a time, and the methods of
\* Database called on their own as well; with this button and this text a
\* handler writes to the store only to create a record or to reset it
Multi == [serial |-> TRUE, ids |-> Ids,
          profiles |-> {[username |-> "alice", first_name |-> "Al"]},
          buttons |-> {"restart_process"},
          texts |-> {<<"a", "b", "c">>}]

Direct == [ids |-> Ids, steps |-> {6},
           platforms |-> {"twitter"},
           usernames |-> {<<"a", "b", "c">>},
           addresses |-> {ValidAddress},
           files |-> {[file_id |-> "f1", file_name |-> "shot.png"]}]

\* events and calls come one at a time, to a single worker
StoreWorkers == {1}

StepStore(w) ==
    \/ create_user(w)
    \/ restart_process(w)
    \/ reply(w)

NextStore ==
    Tick \/ \E w \in StoreWorkers :
                \/ Begin(w, Multi)
                \/ StepStore(w)
                \/ Call(w, Direct)
                \/ Database_get_user_stats(w)

SpecStore == Init /\ [][NextStore]_vars

\* one user and one worker, every event of Serial: the user who keeps
\* sending
NextLive == Tick \/ \E w \in StoreWorkers : Begin(w, Serial) \/ Step(w)

\* the call a handler begins with answers with success
FirstCallSucceeds(w) ==
    /\ \/ membership_check(w)
       \/ save_social_username(w)
       \/ save_bep20_address(w)
    /\ pc'[w] = "update_user_step"

\* update_user_step has modified the record
Advances(w) == update_user_step(w) /\ users' # users

\* a handler that runs comes to its end, and the store and the membership
\* check answer with success again and again
Fairness ==
    \A w \in StoreWorkers :
        /\ WF_vars(Step(w))
        /\ SF_vars(FirstCallSucceeds(w))
        /\ SF_vars(Advances(w))

SpecLive == Init /\ [][NextLive]_vars /\ Fairness

\* the strings over an alphabet of length at most n
Strings(alphabet, n) == UNION {[1..k -> alphabet] : k \in 0..n}

\* the addresses given to validate_bep20_address: blank texts, and a prefix,
\* a run of one character and an ending, with and without whitespace around
AddressInputs ==
    {<<>>, <<" ">>, <<"0", "x">>}
    \cup { lead \o prefix \o Rep(c, n) \o ending \o trail :
             lead \in {<<>>, <<" ">>},
             prefix \in {<<"0", "x">>, <<"0", "X">>, <<"x">>, <<>>},
             c \in {"0", "9", "a", "F", "g"},
             n \in (HexLen - 5)..(HexLen + 1),
             ending \in {<<>>, <<"d", "e", "a", "d">>, <<"D", "e", "A", "d">>,
                         <<"0", " ", "0">>, <<"z">>},
             trail \in {<<>>, <<" ">>, <<"\n">>, <<"\n", "1">>} }

\* the usernames given to validate_username: every short text over a few
\* characters, and long ones, behind "@"s and blanks
UsernameCores ==
    Strings({"a", "7", ".", "_", "-", "@", " "}, MaxCore)
    \cup { head \o Rep("a", n) \o mid \o <<"Z", "9">> \o tail :
             head \in {<<>>, <<".">>, <<"_">>},
             n \in (MaxUsernameLen - 6)..(MaxUsernameLen - 1),
             mid \in {<<>>, <<".">>, <<"_", ".">>, <<".", ".">>, <<"-">>},
             tail \in {<<>>, <<".">>, <<"_">>} }

UsernameInputs ==
    { lead \o core \o trail :
        lead \in {<<>>, <<"@">>, <<"@", "@">>, <<" ">>, <<"@", " ">>, <<" ", "@">>,
                  <<"@", " ", "@">>},
        core \in UsernameCores,
        trail \in {<<>>, <<" ">>, <<"\n">>} }

\* the files given to validate_screenshot
FileSizes == {0, 1, max_size - 1, max_size, max_size + 1, 2 * max_size}

FileNames ==
    { stem \o ext :
        stem \in {<<>>, <<"a">>, <<"a", ".", "b">>, <<"a", ".", "p", "n", "g">>},
        ext \in valid_extensions
                \cup { <<".", "J", "P", "G">>, <<".", "P", "n", "G">>,
                       <<"j", "p", "g">>, <<".", "j", "p">>, <<".", "e", "x", "e">>,
                       <<".", "j", "p", "g", " ">>, <<".", "j", "p", "g", ".">>,
                       <<>>, <<".">>, <<".", "t", "i", "f", "f">> } }

\* the validators called on their own
NextValidators ==
    \E w \in StoreWorkers :
        \/ \E address \in AddressInputs :
              Validators_validate_bep20_address(w, address)
        \/ \E username \in UsernameInputs :
              Validators_validate_username(w, username)
        \/ \E file_size \in FileSizes : \E file_name \in FileNames :
              Validators_validate_screenshot(w, file_size, file_name)
        \/ reply(w)

SpecValidators == Init /\ [][NextValidators]_vars

(***************************************************************************)
(* Properties                                                              *)
(***************************************************************************)
\* worker w takes an event in this step
Begins(w) == pc[w] = "idle" /\ pc'[w] # "idle"

\* worker w performs the call named call in this step
Performs(w, call) == pc[w] = call /\ pc'[w] # call

\* the event worker w takes in this step is addressed to another step than
\* cs: a step button pressed off its step, or a text at a step that
\* collects no text
OffStep(w, cs) ==
    \/ /\ loc'[w].handler = "button_handler"
       /\ \/ loc'[w].data = "verify_step_1" /\ cs # 1
          \/ loc'[w].data = "verify_telegram" /\ cs # 4
          \/ loc'[w].data = "complete_process" /\ cs # 6
    \/ loc'[w].handler = "handle_message" /\ cs \in {1, 4, 6, 7}

\* C1: an event that does not match the current step of the user's record
\* (the step-1 button off step 1, the channel button off step 4, the final
\* button off step 6, a text at step 1, 4, 6 or 7) is rejected: the handler
\* goes straight to its "not on this step" answer and the stored records
\* stay as they are.
C1_OffStepRejected ==
    [][\A w \in Workers :
         (/\ Begins(w)
          /\ loc'[w].id \in DOMAIN users
          /\ OffStep(w, users[loc'[w].id].current_step))
         => /\ pc'[w] = "reply"
            /\ loc'[w].out \in {"not_on_step", "currently_on_step"}
            /\ users' = users]_vars

\* the step-1 button pressed at step 3 has been rejected
C1_Witness ==
    \E w \in Workers :
        /\ pc[w] = "reply" /\ loc[w].out = "not_on_step"
        /\ loc[w].data = "verify_step_1"
        /\ users[loc[w].id].current_step = 3
        /\ Get(users[loc[w].id].steps_completed, "step_1")

\* worker w applies a reset in this step
Resets(w) ==
    \/ Performs(w, "restart_process")
    \/ Begins(w) /\ loc'[w].handler = "reset_command"

\* C2: with the events of a user handled one at a time, every change of a
\* record's current_step is an increase by exactly 1 that completes the step
\* it leaves, or a reset to 1.
C2_StepByOne ==
    [][\A u \in DOMAIN users :
         (u \in DOMAIN users' /\ users'[u].current_step # users[u].current_step)
         => \/ /\ users'[u].current_step = users[u].current_step + 1
               /\ Get(users'[u].steps_completed, step_key(users[u].current_step))
            \/ /\ users'[u].current_step = 1
               /\ \E w \in Workers : Resets(w) /\ loc'[w].id = u]_vars

\* a text handler has moved a record from step 2 to step 3
C2_Witness ==
    \E w \in Workers :
        /\ pc[w] = "reply" /\ loc[w].handler = "handle_message"
        /\ loc[w].current_step = 2
        /\ users[loc[w].id].current_step = 3

\* C3: in every stored record, a completed step n has current_step >= n + 1.
C3_CompletedBelowCurrent ==
    \A u \in DOMAIN users : \A n \in Steps :
        Get(users[u].steps_completed, step_key(n))
            => users[u].current_step >= n + 1

\* a record with steps 1 to 3 completed stands at step 4
C3_Witness ==
    \E u \in DOMAIN users :
        /\ Get(users[u].steps_completed, "step_3")
        /\ users[u].current_step = 4

\* C4: in every stored state a step's data is there only when the step is
\* completed: twitter only with step 2, instagram only with step 3, the
\* address only with step 5.
C4_DataOnlyWhenCompleted ==
    \A u \in DOMAIN users :
        LET d == users[u] IN
        /\ d.social_usernames.twitter # None => Get(d.steps_completed, "step_2")
        /\ d.social_usernames.instagram # None => Get(d.steps_completed, "step_3")
        /\ d.bep20_address # None => Get(d.steps_completed, "step_5")

\* C5: a step advance is a conditional update: when the stored
\* current_step is no longer the step the handler read, its
\* update_user_step writes neither current_step nor steps_completed.
C5_StaleAdvanceChangesNothing ==
    [][\A w \in Workers :
         (/\ Performs(w, "update_user_step")
          /\ loc[w].id \in DOMAIN users
          /\ users[loc[w].id].current_step # loc[w].current_step)
         => /\ users'[loc[w].id].current_step = users[loc[w].id].current_step
            /\ users'[loc[w].id].steps_completed = users[loc[w].id].steps_completed]_vars

\* the fields a reset clears are clear
IsReset(d) ==
    /\ d.current_step = 1
    /\ d.steps_completed = <<>>
    /\ d.social_usernames = [twitter |-> None, instagram |-> None]
    /\ d.bep20_address = None

\* C6: the restart button and the /reset command are taken at every step of
\* an existing record, and once the store has applied the reset the record
\* has current_step 1, no completed step, no social username and no
\* address, whatever it held before (so a second reset leaves these fields
\* as the first left them).  A reset the store raises on answers with an
\* error instead.
C6_ResetFromAnyStep ==
    [][\A w \in Workers :
         /\ (/\ Begins(w)
             /\ loc'[w].handler = "button_handler"
             /\ loc'[w].data = "restart_process"
             /\ loc'[w].id \in DOMAIN users)
            => pc'[w] = "restart_process"
         /\ (Resets(w) /\ loc'[w].id \in DOMAIN users)
            => /\ loc'[w].out \in {"restarted", "reset_done", "no_data_to_reset",
                                   "error_restarting", "error_resetting"}
               /\ loc'[w].out \in {"restarted", "reset_done", "no_data_to_reset"}
                    => /\ loc'[w].id \in DOMAIN users'
                       /\ IsReset(users'[loc'[w].id])
               /\ loc'[w].out \in {"error_restarting", "error_resetting"}
                    => users' = users]_vars

\* the restart button, pressed on a completed record, has reset it
C6_Witness ==
    \E w \in Workers :
        /\ pc[w] = "reply" /\ loc[w].out = "restarted"
        /\ loc[w].current_step = 7
        /\ IsReset(users[loc[w].id])

\* C7: create_user for an id that is stored already answers success and
\* leaves the stored record as it is.
C7_CreateExistingSucceeds ==
    [][\A w \in Workers :
         (Performs(w, "create_user") /\ loc[w].id \in DOMAIN users)
         => loc'[w].out = "welcome" /\ users' = users]_vars

\* C8: a handler that reports step k as done has left current_step at k + 1.
C8_SuccessMeansAdvanced ==
    \A w \in Workers :
        (pc[w] = "reply" /\ loc[w].out = "success")
            => users[loc[w].id].current_step = loc[w].current_step + 1

\* the field of document d that holds the data of step s
StepField(d, s) ==
    IF s = 2 THEN d.social_usernames.twitter
    ELSE IF s = 3 THEN d.social_usernames.instagram
    ELSE d.bep20_address

\* the verdict the handler gets from the validator of step s on a message
\* text: at steps 2 and 3 on the username it takes from the text
Passes(s, message_text) ==
    IF s = 5 THEN validate_bep20_address(message_text).ok
    ELSE validate_username(Strip(LStrip(message_text, {"@"}))).ok

\* the value a text stands for at step s
StepValue(s, message_text) ==
    IF s = 5 THEN message_text ELSE Strip(LStrip(message_text, {"@"}))

MemberStatuses == {"member", "administrator", "creator"}

\* C10: the channel button at step 4 asks the membership check first and
\* writes nothing until it answers; the record moves from step 4 to step 5
\* only by that handler after the check answered member; on any other
\* answer (not a member, restricted, or the check raising) the handler
\* answers that the verification failed and the record stays as it is.
C10_MembershipFailsClosed ==
    [][/\ \A w \in Workers :
            /\ (/\ Begins(w)
                /\ loc'[w].handler = "button_handler"
                /\ loc'[w].data = "verify_telegram"
                /\ loc'[w].id \in DOMAIN users
                /\ users[loc'[w].id].current_step = 4)
               => pc'[w] = "check_channel_membership" /\ users' = users
            /\ Performs(w, "check_channel_membership")
               => /\ users' = users
                  /\ IF loc'[w].status \in MemberStatuses
                     THEN pc'[w] = "update_user_step"
                     ELSE pc'[w] = "reply" /\ loc'[w].out = "verification_failed"
       /\ \A u \in DOMAIN users :
            (/\ u \in DOMAIN users'
             /\ users[u].current_step = 4
             /\ users'[u] # users[u]
             /\ ~ \E w \in Workers : Resets(w) /\ loc'[w].id = u)
            => \E w \in Workers :
                 /\ Performs(w, "update_user_step")
                 /\ loc[w].id = u
                 /\ loc[w].data = "verify_telegram"
                 /\ loc[w].status \in MemberStatuses
                 /\ users'[u].current_step = 5]_vars

\* the membership check raised and the record still stands at step 4
C10_Witness ==
    \E w \in Workers :
        /\ pc[w] = "reply" /\ loc[w].data = "verify_telegram"
        /\ loc[w].status = "Exception"
        /\ loc[w].out = "verification_failed"
        /\ users[loc[w].id].current_step = 4
        /\ ~ Get(users[loc[w].id].steps_completed, "step_4")

\* the buttons that complete a step
StepButtons == {"verify_step_1", "verify_telegram", "complete_process"}

\* C11: with the events of a user handled one at a time, at current_step 7
\* every step button and every text is rejected and writes nothing, and a
\* record that stands at 7 is changed by nothing but a restart or a reset.
C11_CompleteIsTerminal ==
    [][/\ \A w \in Workers :
            (/\ Begins(w)
             /\ loc'[w].id \in DOMAIN users
             /\ users[loc'[w].id].current_step = 7
             /\ \/ loc'[w].handler = "handle_message"
                \/ loc'[w].handler = "button_handler" /\ loc'[w].data \in StepButtons)
            => /\ pc'[w] = "reply"
               /\ loc'[w].out \in {"not_on_step", "currently_on_step"}
               /\ users' = users
       /\ \A u \in DOMAIN users :
            (users[u].current_step = 7 /\ (u \notin DOMAIN users' \/ users'[u] # users[u]))
            => /\ u \in DOMAIN users'
               /\ users'[u].current_step = 1
               /\ \E w \in Workers : Resets(w) /\ loc'[w].id = u]_vars

\* a text sent to a completed record has been rejected
C11_Witness ==
    \E w \in Workers :
        /\ pc[w] = "reply" /\ loc[w].handler = "handle_message"
        /\ loc[w].out = "currently_on_step"
        /\ loc[w].message_text = ValidAddress
        /\ users[loc[w].id].current_step = 7

\* C12: with the events of a user handled one at a time, once step 5 is
\* completed and the address is stored, the stored address changes only by a
\* restart or a reset, which clears it.
C12_AddressSetOnce ==
    [][\A u \in DOMAIN users :
         (/\ Get(users[u].steps_completed, "step_5")
          /\ users[u].bep20_address # None
          /\ (u \notin DOMAIN users' \/ users'[u].bep20_address # users[u].bep20_address))
         => /\ u \in DOMAIN users'
            /\ users'[u].bep20_address = None
            /\ \E w \in Workers : Resets(w) /\ loc'[w].id = u]_vars

\* another valid address, sent after step 5 was completed, has been turned
\* down and the first address is still stored
C12_Witness ==
    \E w \in Workers :
        /\ pc[w] = "reply" /\ loc[w].handler = "handle_message"
        /\ loc[w].message_text = OtherAddress
        /\ loc[w].current_step = 6
        /\ users[loc[w].id].bep20_address = ValidAddress
        /\ Get(users[loc[w].id].steps_completed, "step_5")

\* C13: a step that is completed in a record stays completed in every later
\* state; only a restart or a reset, which empties steps_completed, takes
\* a completed step away.
C13_CompletedStays ==
    [][\A u \in DOMAIN users : \A s \in Steps :
         (/\ Get(users[u].steps_completed, step_key(s))
          /\ (u \notin DOMAIN users' \/ ~Get(users'[u].steps_completed, step_key(s))))
         => /\ u \in DOMAIN users'
            /\ users'[u].steps_completed = <<>>
            /\ \E w \in Workers : Resets(w) /\ loc'[w].id = u]_vars

\* all six steps have been completed one after the other and are all still
\* recorded as completed
C13_Witness ==
    \E u \in DOMAIN users :
        /\ users[u].current_step = 7
        /\ \A s \in Steps : Get(users[u].steps_completed, step_key(s))

\* the methods of Database that update a record
Mutators == {"Database.update_user_step", "Database.save_social_username",
             "Database.save_bep20_address", "Database.add_screenshot"}

\* what a handler answers, or a method returns, on a user without a record
NotFound(l) ==
    \/ l.handler = "button_handler" /\ l.out = "user_not_found"
    \/ l.handler = "handle_message" /\ l.out = "use_start_first"
    \/ l.handler = "reset_command" /\ l.out \in {"no_data_to_reset", "error_resetting"}
    \/ l.handler \in Mutators /\ l.out = "False"

\* C14: a button, a text, /reset or an updating method of Database for a
\* user who has no record ends in failure with the collection unchanged, and
\* a record comes into being only by the create_user of /start.
C14_NoRecordNoEffect ==
    [][/\ \A w \in Workers :
            (/\ Begins(w)
             /\ loc'[w].id \notin DOMAIN users
             /\ loc'[w].handler \in {"button_handler", "handle_message",
                                     "reset_command"} \cup Mutators)
            => /\ pc'[w] = "reply"
               /\ NotFound(loc'[w])
               /\ users' = users
       /\ DOMAIN users' # DOMAIN users
            => \E w \in Workers :
                 /\ Performs(w, "create_user")
                 /\ loc[w].handler = "start"
                 /\ DOMAIN users' = DOMAIN users \cup {loc[w].id}
                 /\ \A u \in DOMAIN users : users'[u] = users[u]]_vars

\* add_screenshot has returned False for a user without a record while
\* another user had one, and no record has come of it
C14_Witness ==
    \E w \in Workers :
        /\ pc[w] = "reply"
        /\ loc[w].handler = "Database.add_screenshot"
        /\ loc[w].out = "False"
        /\ loc[w].id \notin DOMAIN users
        /\ DOMAIN users # {}

\* C15: update_user_step(user_id, n, True), applied to an existing record,
\* leaves current_step at n + 1 and step n completed with the other steps as
\* they were; called again on the record it left, it leaves current_step and
\* steps_completed as the first call left them.
C15_AdvanceIdempotent ==
    \A w \in Workers : \A n \in Steps : \A d \in Range(loc[w].matched) :
        (/\ pc[w] = "reply"
         /\ loc[w].handler = "Database.update_user_step"
         /\ loc[w].args = <<n, TRUE>>)
        => LET once == update_data(d, n, TRUE, d.updated_at)
               after == users[loc[w].id]
           IN  /\ once.current_step = n + 1
               /\ once.steps_completed = Put(d.steps_completed, step_key(n), TRUE)
               /\ loc[w].out = "True"
                    => /\ after.current_step = once.current_step
                       /\ after.steps_completed = once.steps_completed
               /\ (d.current_step = n + 1 /\ Get(d.steps_completed, step_key(n)))
                    => /\ after.current_step = d.current_step
                       /\ after.steps_completed = d.steps_completed

\* the second of two calls in a row has been applied, at a later time than
\* the first, to the record the first call left
C15_Witness ==
    \E w \in Workers : \E n \in Steps : \E d \in Range(loc[w].matched) :
        /\ pc[w] = "reply"
        /\ loc[w].handler = "Database.update_user_step"
        /\ loc[w].args = <<n, TRUE>>
        /\ loc[w].out = "True"
        /\ d.current_step = n + 1
        /\ d.steps_completed = Put(<<>>, step_key(n), TRUE)
        /\ d.updated_at < users[loc[w].id].updated_at

\* the texts of the run C16 follows
GoodHandle == <<"a", "b", "c">>
BadHandle == <<".", "b", "a", "d", "_">>

\* C16: the run start, step-1 button, handle, handle, join button as a
\* member, address, final button takes a new record through current_step
\* 1, 2, ..., 7: each of these events, arriving at its step, goes on to the
\* advance of that step, and the advance moves current_step from s to s + 1;
\* the handle ".bad_" at step 3 and the zero address at step 5 are answered
\* as invalid and change nothing; the record that reaches 7 is among those
\* get_user_stats counts as completed.  (A store call that raises is not
\* applied.)
C16_EndToEnd ==
    [][\A w \in Workers :
         LET u == loc'[w].id
             s == loc[w].current_step
         IN
         \* start creates the record at step 1
         /\ (Performs(w, "create_user") /\ users' # users)
            => /\ u \notin DOMAIN users
               /\ users'[u].current_step = 1
               /\ users'[u].steps_completed = <<>>
         \* the events of the run, each at its step
         /\ (Begins(w) /\ u \in DOMAIN users)
            => LET cs == users[u].current_step
                   l == loc'[w]
               IN  /\ (l.handler = "button_handler" /\ l.data = "verify_step_1" /\ cs = 1)
                        => pc'[w] = "update_user_step" /\ l.current_step = 1
                   /\ (l.handler = "handle_message" /\ l.message_text = GoodHandle
                       /\ cs \in {2, 3})
                        => pc'[w] = "save_social_username" /\ l.current_step = cs
                   /\ (l.handler = "button_handler" /\ l.data = "verify_telegram" /\ cs = 4)
                        => pc'[w] = "check_channel_membership" /\ l.current_step = 4
                   /\ (l.handler = "handle_message" /\ l.message_text = ValidAddress
                       /\ cs = 5)
                        => pc'[w] = "save_bep20_address" /\ l.current_step = 5
                   /\ (l.handler = "button_handler" /\ l.data = "complete_process" /\ cs = 6)
                        => pc'[w] = "update_user_step" /\ l.current_step = 6
                   \* the invalid texts on the way
                   /\ (l.handler = "handle_message"
                       /\ \/ l.message_text = BadHandle /\ cs = 3
                          \/ l.message_text = ZeroAddress /\ cs = 5)
                        => pc'[w] = "reply" /\ l.out = "invalid" /\ users' = users
         \* a member passes the membership check
         /\ (Performs(w, "check_channel_membership") /\ loc'[w].status = "member")
            => pc'[w] = "update_user_step" /\ users' = users
         \* the value of a text step is stored before the advance
         /\ (Performs(w, "save_social_username") \/ Performs(w, "save_bep20_address"))
            => /\ users'[u].current_step = s
               /\ pc'[w] = "update_user_step" \/ users' = users
         \* the advance
         /\ Performs(w, "update_user_step")
            => \/ users' = users
               \/ /\ users[u].current_step = s
                  /\ users'[u].current_step = s + 1
                  /\ s = 6 => /\ loc[w].data = "complete_process"
                              /\ u \in completed_users_of(users')
                              /\ get_user_stats(users', FALSE).completed_users >= 1]_vars

\* the run has been made: the final button was pressed at step 6, the
\* record stands at 7 with every step completed and the values of the run
\* stored, and get_user_stats counts it
C16_Witness ==
    \E w \in Workers :
        /\ pc[w] = "reply" /\ loc[w].handler = "button_handler"
        /\ loc[w].data = "complete_process" /\ loc[w].current_step = 6
        /\ LET d == users[loc[w].id] IN
           /\ d.current_step = 7
           /\ \A n \in Steps : Get(d.steps_completed, step_key(n))
           /\ d.social_usernames = [twitter |-> GoodHandle, instagram |-> GoodHandle]
           /\ d.bep20_address = ValidAddress
        /\ get_user_stats(users, FALSE).completed_users = 1

\* C17: username and first_name of a record are those of the /start that
\* created it and no event changes them afterwards, a reset and a later
\* /start under another name included; a /start of a user who has a record
\* writes nothing.
C17_NamesFixed ==
    [][/\ \A u \in DOMAIN users :
            /\ u \in DOMAIN users'
            /\ users'[u].username = users[u].username
            /\ users'[u].first_name = users[u].first_name
       /\ \A w \in Workers :
            /\ (Performs(w, "create_user") /\ users' # users)
               => /\ users'[loc[w].id].username = loc[w].username
                  /\ users'[loc[w].id].first_name = loc[w].first_name
            /\ (Begins(w) /\ loc'[w].handler = "start" /\ loc'[w].id \in DOMAIN users)
               => pc'[w] = "reply" /\ users' = users]_vars

\* /start has come again under another name and has been answered, and the
\* record still carries the names it was created with
C17_Witness ==
    \E w \in Workers :
        /\ pc[w] = "reply" /\ loc[w].handler = "start"
        /\ loc[w].out = "welcome_back"
        /\ loc[w].username = "No username"
        /\ users[loc[w].id].username = "alice"
        /\ users[loc[w].id].first_name = "Al"

\* C18: no record is ever deleted; a restart or a reset leaves screenshots,
\* username, first_name and created_at of the record as they were; and
\* screenshots changes only by add_screenshot putting its one entry at the
\* end.
C18_ResetKeepsScreenshots ==
    [][\A u \in DOMAIN users :
         /\ u \in DOMAIN users'
         /\ users'[u].created_at = users[u].created_at
         /\ users'[u].username = users[u].username
         /\ users'[u].first_name = users[u].first_name
         /\ (\E w \in Workers : Resets(w) /\ loc'[w].id = u)
              => users'[u].screenshots = users[u].screenshots
         /\ users'[u].screenshots # users[u].screenshots
              => \E w \in Workers :
                   /\ Begins(w)
                   /\ loc'[w].handler = "Database.add_screenshot"
                   /\ loc'[w].id = u
                   /\ loc'[w].out = "True"
                   /\ users'[u].screenshots =
                        Append(users[u].screenshots,
                               [file_id |-> loc'[w].args[1],
                                file_name |-> loc'[w].args[2],
                                uploaded_at |-> now])]_vars

\* /reset has been applied to a record that holds two screenshots, and
\* they are still there, the earlier one first
C18_Witness ==
    \E w \in Workers :
        /\ pc[w] = "reply" /\ loc[w].handler = "reset_command"
        /\ loc[w].out = "reset_done"
        /\ IsReset(users[loc[w].id])
        /\ Len(users[loc[w].id].screenshots) = 2
        /\ users[loc[w].id].screenshots[1].uploaded_at
             < users[loc[w].id].screenshots[2].uploaded_at

\* C19: with the events of a user handled one at a time, current_step of
\* every record is one of 1..7; a record at 7 has all six steps completed;
\* and a record comes to 7 only from 6, by the advance of the
\* complete_process button.
C19_StepRange ==
    [][\A u \in DOMAIN users' :
         /\ users'[u].current_step \in 1..7
         /\ users'[u].current_step = 7
              => \A n \in Steps : Get(users'[u].steps_completed, step_key(n))
         /\ (users'[u].current_step = 7
             /\ (u \notin DOMAIN users \/ users[u].current_step # 7))
              => /\ u \in DOMAIN users
                 /\ users[u].current_step = 6
                 /\ \E w \in Workers :
                      /\ Performs(w, "update_user_step")
                      /\ loc[w].id = u
                      /\ loc[w].handler = "button_handler"
                      /\ loc[w].data = "complete_process"
                      /\ loc[w].current_step = 6]_vars

\* the advance of complete_process has just taken a record from 6 to 7
C19_Witness ==
    \E w \in Workers :
        /\ pc[w] = "final_info"
        /\ loc[w].current_step = 6
        /\ users[loc[w].id].current_step = 7

\* C20: whatever has happened before, get_user_stats returns total_users
\* equal to the number of records and completed_users equal to the number of
\* records with current_step >= 7, so completed_users <= total_users, and a
\* completion_rate of 0 when there is no record.
C20_StatsCount ==
    \A w \in Workers : \A r \in Range(loc[w].result) :
        (pc[w] = "reply" /\ loc[w].handler = "Database.get_user_stats")
        => /\ r.total_users = Cardinality(DOMAIN users)
           /\ r.completed_users =
                Cardinality({u \in DOMAIN users : users[u].current_step >= 7})
           /\ r.completed_users <= r.total_users
           /\ r.total_users = 0 => r.completion_rate.num = 0

\* "0x" followed by 40 hexadecimal characters of either case, and in lower
\* case neither the zero nor the dead address
WellFormedAddress(s) ==
    /\ Len(s) = HexLen + 2
    /\ SubSeq(s, 1, 2) = <<"0", "x">>
    /\ \A i \in 3..Len(s) : s[i] \in HexChars
    /\ Lower(s) # <<"0", "x">> \o Rep("0", HexLen)
    /\ Lower(s) # <<"0", "x">> \o Rep("0", HexLen - 4) \o <<"d", "e", "a", "d">>

\* worker w holds what a call of method has returned
Returned(w, method) == pc[w] = "reply" /\ loc[w].handler = method

\* C21, as stated: validate_bep20_address accepts a text if and only if the
\* text itself is "0x" and 40 hexadecimal characters and is neither the zero
\* nor the dead address, and gives a reason with every rejection.
C21_AddressExact ==
    \A w \in Workers :
        Returned(w, "Validators.validate_bep20_address")
        => LET s == loc[w].args[1]
               r == loc[w].result[1]
           IN  /\ r.ok <=> WellFormedAddress(s)
               /\ ~r.ok => r.msg # ""

\* C21, amended: validate_bep20_address accepts a text if and only if the
\* text without the whitespace around it is "0x" and 40 hexadecimal
\* characters and is neither the zero nor the dead address, and gives a
\* reason with every rejection.
C21_AddressTrimmed ==
    \A w \in Workers :
        Returned(w, "Validators.validate_bep20_address")
        => LET s == loc[w].args[1]
               r == loc[w].result[1]
           IN  /\ r.ok <=> WellFormedAddress(Strip(s))
               /\ ~r.ok => r.msg # ""

\* an address with a blank before it and a newline after it has been
\* accepted
C21_Witness ==
    \E w \in Workers :
        /\ Returned(w, "Validators.validate_bep20_address")
        /\ loc[w].result[1].ok
        /\ LET s == loc[w].args[1] IN
           s[1] = " " /\ s[Len(s)] = "\n" /\ Len(s) = HexLen + 4

\* the format rules of a username: length, characters, first and last
\* character, no two special characters in a row
WellFormedHandle(u) ==
    /\ Len(u) >= 3 /\ Len(u) <= 30
    /\ \A i \in DOMAIN u : u[i] \in UsernameChars
    /\ u[1] \notin {"_", "."} /\ u[Len(u)] \notin {"_", "."}
    /\ \A i \in 1..(Len(u) - 1) : ~(u[i] \in {"_", "."} /\ u[i + 1] \in {"_", "."})

\* a text without its one leading "@", if it has one
StripOneAt(s) == IF Len(s) > 0 /\ s[1] = "@" THEN From(s, 2) ELSE s

\* C22: validate_username takes one leading "@" off the text (and the
\* whitespace around what is left) and accepts the text if and only if the
\* rest keeps the format rules.
C22_HandleSingleAt ==
    \A w \in Workers :
        Returned(w, "Validators.validate_username")
        => (loc[w].result[1].ok <=> WellFormedHandle(Strip(StripOneAt(loc[w].args[1]))))

\* the reason the first broken rule gives for a username u, the rules taken
\* in the order empty, short, long, characters, first and last, consecutive
FirstReason(u) ==
    IF u = <<>> THEN "Username cannot be empty"
    ELSE IF Len(u) < 3 THEN "Username must be at least 3 characters long"
    ELSE IF Len(u) > 30 THEN "Username cannot be longer than 30 characters"
    ELSE IF \E i \in DOMAIN u : u[i] \notin UsernameChars
    THEN "Username can only contain letters, numbers, underscores, and dots"
    ELSE IF u[1] \in {"_", "."}
    THEN "Username cannot start with underscore or dot"
    ELSE IF u[Len(u)] \in {"_", "."}
    THEN "Username cannot end with underscore or dot"
    ELSE IF \E i \in 1..(Len(u) - 1) : u[i] \in {"_", "."} /\ u[i + 1] \in {"_", "."}
    THEN "Username cannot contain consecutive special characters"
    ELSE "Valid username"

\* C23: validate_username gives the reason of the first rule, in the order
\* empty, short, long, characters, first and last character, consecutive
\* special characters, that the text breaks once its leading "@" and the
\* whitespace around it are taken off; so "@" is reported as empty.
C23_FirstReason ==
    \A w \in Workers :
        Returned(w, "Validators.validate_username")
        => loc[w].result[1].msg = FirstReason(Strip(LStrip(loc[w].args[1], {"@"})))

\* the part of a file name after its last "."; the whole name stands for
\* "no extension" when the name has no "."
Extension(file_name) ==
    IF \E i \in DOMAIN file_name : file_name[i] = "."
    THEN From(file_name,
              1 + CHOOSE i \in DOMAIN file_name :
                      /\ file_name[i] = "."
                      /\ \A j \in (i + 1)..Len(file_name) : file_name[j] # ".")
    ELSE <<".">>

ImageTypes == { <<"j", "p", "g">>, <<"j", "p", "e", "g">>, <<"p", "n", "g">>,
                <<"g", "i", "f">>, <<"b", "m", "p">>, <<"w", "e", "b", "p">> }

\* C24: validate_screenshot fails for its size a file of more than
\* 5,242,880 bytes whatever its name, and no other; a file that is not too
\* large fails for its type unless the extension of its name, in lower case,
\* is one of jpg, jpeg, png, gif, bmp, webp, and passes otherwise.
C24_ScreenshotRules ==
    \A w \in Workers :
        Returned(w, "Validators.validate_screenshot")
        => LET file_size == loc[w].args[1]
               file_name == loc[w].args[2]
               r == loc[w].result[1]
           IN  IF file_size > 5242880
               THEN ~r.ok /\ r.msg = "File size too large. Maximum 5MB allowed"
               ELSE IF Lower(Extension(file_name)) \notin ImageTypes
               THEN ~r.ok /\ r.msg = "Invalid file type. Please send image files only"
               ELSE r.ok

\* a file of exactly 5,242,880 bytes with an upper-case extension has passed
C24_Witness ==
    \E w \in Workers :
        /\ Returned(w, "Validators.validate_screenshot")
        /\ loc[w].args[1] = 5242880
        /\ loc[w].args[2] = <<"a", ".", "J", "P", "G">>
        /\ loc[w].result[1].ok

\* C25: every username a text at step 2 or 3 has stored keeps the format
\* rules of validate_username: what is written is the text the validator
\* approved.
C25_StoredHandleWellFormed ==
    \A u \in DOMAIN users : \A platform \in {"twitter", "instagram"} :
        users[u].social_usernames[platform] # None
        => WellFormedHandle(users[u].social_usernames[platform])

\* C26: with the events of a user handled one at a time, a record at
\* current_step k has every step below k completed, holds the twitter name
\* from step 3 on, the instagram name from step 4 on and from step 6 on an
\* address that validate_bep20_address accepts; so a record at 7 has all six
\* steps completed and all three values.
C26_Prerequisites ==
    \A u \in DOMAIN users :
        LET d == users[u] IN
        /\ \A n \in Steps : n < d.current_step => Get(d.steps_completed, step_key(n))
        /\ d.current_step >= 3 => d.social_usernames.twitter # None
        /\ d.current_step >= 4 => d.social_usernames.instagram # None
        /\ d.current_step >= 6
             => /\ d.bep20_address # None
                /\ validate_bep20_address(d.bep20_address).ok
                /\ WellFormedAddress(d.bep20_address)

\* a record stands at 7 and holds an address and two usernames that
\* differ from one another
C26_Witness ==
    \E u \in DOMAIN users :
        /\ users[u].current_step = 7
        /\ users[u].bep20_address = OtherAddress
        /\ users[u].social_usernames.twitter # users[u].social_usernames.instagram

\* C27: with two events of a user in flight at once, current_step of a
\* record goes down only by a restart or a reset, and a completed step n
\* still means current_step >= n + 1.
C27_StaleWriteHarmless ==
    [][\A u \in DOMAIN users :
         /\ users'[u].current_step < users[u].current_step
              => \E w \in Workers : Resets(w) /\ loc'[w].id = u
         /\ \A n \in Steps :
              Get(users'[u].steps_completed, step_key(n))
              => users'[u].current_step >= n + 1]_vars

\* C28: a restart or a reset applied between the read and a store write of
\* a step handler is not undone by that write: the handler read a step past
\* 1, the record it writes to is in the reset state, and the record is in
\* the reset state after the write as well.
C28_ResetNotUndone ==
    [][\A w \in Workers :
         (/\ \/ Performs(w, "save_social_username")
             \/ Performs(w, "save_bep20_address")
             \/ Performs(w, "update_user_step")
          /\ loc[w].id \in DOMAIN users
          /\ loc[w].current_step > 1
          /\ IsReset(users[loc[w].id]))
         => IsReset(users'[loc[w].id])]_vars

\* no restart and no reset
NoReset == \A w \in Workers : ~Resets(w)

\* the answers of a handler that does not take the event for the step
Rejections == {"not_on_step", "currently_on_step", "invalid", "not_verified"}

\* two valid inputs for every step that takes a text
ValidTexts == {<<"a", "b", "c">>, ValidAddress}

OtherValidTexts == {<<"@", " ", "@", "a", "b", "c">>, OtherAddress}

\* the event handler w has in hand completes the step the handler read: the
\* button of the step, or one of the texts, valid for the step
StepEvent(w, texts) ==
    LET l == loc[w] IN
    /\ pc[w] # "idle"
    /\ \/ /\ l.handler = "button_handler"
          /\ \/ l.current_step = 1 /\ l.data = "verify_step_1"
             \/ l.current_step = 4 /\ l.data = "verify_telegram"
             \/ l.current_step = 6 /\ l.data = "complete_process"
       \/ /\ l.handler = "handle_message"
          /\ \E text \in texts : l.message_text = Strip(text)
          /\ \/ /\ l.current_step \in {2, 3}
                /\ validate_username(username_of(l.message_text)).ok
             \/ /\ l.current_step = 5
                /\ validate_bep20_address(l.message_text).ok

\* the record of user u is complete
Complete(u) == u \in DOMAIN users /\ users[u].current_step = 7

\* until the record is complete the user sends, again and again, the event
\* that completes the current step, with one of the texts
KeepsSending(u, texts) ==
    []<>(Complete(u) \/ \E w \in Workers : loc[w].id = u /\ StepEvent(w, texts))

====
